---- MODULE Spec2Model ----
(***************************************************************************)
(* Model of the GameEngine component of Mushroom Kingdom Mashup Maker.     *)
(*                                                                         *)
(* The repository holds two revisions of the engine: src/unnamed/part_009  *)
(* (the later one, with keyboard input, the Peach shield and per-axis      *)
(* enemy collision) and src/unnamed/part_003 (the earlier one).  The       *)
(* variable rev selects the revision a run executes; definitions ending    *)
(* in 009 / 003 are the places where the two differ.                       *)
(*                                                                         *)
(* Numbers: the engine computes in IEEE doubles.  The model is fixed       *)
(* point, 20 units per pixel, so that every constant of the code           *)
(* (0.5, 11.5, 4.2, 25.6, 22.4, 13.8, 5.75 ...) is an integer; the only    *)
(* rounding is in the friction product vx * 0.84 and in the camera         *)
(* easing, both truncated toward zero to 1/20 pixel.                       *)
(***************************************************************************)
EXTENDS Integers, Sequences, FiniteSets, TLC

\* ---------------------------------------------------------------- numbers

Px(n) == n * 20
Tenths(n) == n * 2

Abs(n) == IF n < 0 THEN -n ELSE n
Min(a, b) == IF a < b THEN a ELSE b
Max(a, b) == IF a > b THEN a ELSE b

\* Math.floor(a / b) for b > 0
Floor(a, b) == a \div b

\* a * num / den rounded toward zero
Scaled(a, num, den) ==
    IF a >= 0 THEN (a * num) \div den ELSE -(((-a) * num) \div den)

\* ------------------------------------------------------------- constants

TILE_SIZE == Px(32)
GRAVITY == Tenths(5)
JUMP_FORCE == -Tenths(115)
MOVE_SPEED == Tenths(42)
FRICTION_PCT == 84
CLIMB_SPEED == Tenths(32)

TileEmpty == 0
TileGround == 1
TileBrick == 2
TileQuestion == 3
TileHardBlock == 4
TilePipeLeft == 5
TilePipeRight == 6
TileSpike == 7
TileGoal == 8
TileCoinBlock == 9
TileVineBase == 10

EntityTypes == {"player", "goomba", "coin", "mushroom", "goal", "vine"}
Characters == {"Mario", "Luigi", "Toad", "Peach"}
Keys == {"left", "right", "up", "down", "jump", "ability"}
Revisions == {"r009", "r003"}

SMALL_H == (TILE_SIZE * 8) \div 10
BIG_H == (TILE_SIZE * 15) \div 10
PLAYER_W == (TILE_SIZE * 8) \div 10

\* lifespan of an entity that has none (e.lifespan === undefined)
NoLifespan == -1

\* --------------------------------------------------------------- geometry

\* overlap test that counts a shared boundary
checkRectCollisionClosed(r1, r2) ==
    /\ r1.x <= r2.x + r2.w
    /\ r1.x + r1.w >= r2.x
    /\ r1.y <= r2.y + r2.h
    /\ r1.y + r1.h >= r2.y

\* the axis-aligned overlap test: four strict comparisons
checkRectCollision(r1, r2) ==
    /\ r1.x < r2.x + r2.w
    /\ r1.x + r1.w > r2.x
    /\ r1.y < r2.y + r2.h
    /\ r1.y + r1.h > r2.y

\* Determines the primary side of collision for r1 against r2.
getCollisionSide(r1, r2) ==
    IF ~checkRectCollision(r1, r2) THEN "none"
    ELSE LET overlapX == Min(r1.x + r1.w - r2.x, r2.x + r2.w - r1.x)
             overlapY == Min(r1.y + r1.h - r2.y, r2.y + r2.h - r1.y)
         IN IF overlapX < overlapY
            THEN IF r1.x + r1.w > r2.x /\ r1.x < r2.x THEN "right" ELSE "left"
            ELSE IF r1.y + r1.h > r2.y /\ r1.y < r2.y THEN "bottom" ELSE "top"

TileRect(c, r) == [x |-> c * TILE_SIZE, y |-> r * TILE_SIZE, w |-> TILE_SIZE, h |-> TILE_SIZE]

\* ------------------------------------------------------------ level data

\* An entity as the level editor places it (LevelEditor handlePaint): tile
\* aligned, one tile in size, at rest.
PlacedEntity(type, c, r) ==
    [type |-> type, x |-> c * TILE_SIZE, y |-> r * TILE_SIZE,
     w |-> TILE_SIZE, h |-> TILE_SIZE, vx |-> 0, vy |-> 0,
     dead |-> FALSE, lifespan |-> NoLifespan,
     spawning |-> FALSE, spawnStartY |-> 0]

MakeLevel(w, h, grid, entities, sx, sy) ==
    [width |-> w, height |-> h, grid |-> grid, entities |-> entities,
     startPos |-> [x |-> sx, y |-> sy]]

\* One Ground row, a Goal tile standing on it right of the start
\* (the shape of INITIAL_LEVEL_GRID, where the goal is a tile of the grid).
LevelGoalTile ==
    MakeLevel(3, 3,
        <<TileEmpty, TileEmpty, TileEmpty>> \o
        <<TileEmpty, TileGoal, TileEmpty>> \o
        <<TileGround, TileGround, TileGround>>,
        <<>>, 0, 1)

\* The same ground with the goal placed by the editor's goal tool (an entity).
LevelGoalEntity ==
    MakeLevel(3, 3,
        <<TileEmpty, TileEmpty, TileEmpty>> \o
        <<TileEmpty, TileEmpty, TileEmpty>> \o
        <<TileGround, TileGround, TileGround>>,
        <<PlacedEntity("goal", 1, 1)>>, 0, 1)

\* Start tile directly above a Spike tile, nothing beneath.
LevelSpikeDrop ==
    MakeLevel(2, 3,
        <<TileEmpty, TileEmpty>> \o
        <<TileSpike, TileEmpty>> \o
        <<TileEmpty, TileEmpty>>,
        <<>>, 0, 0)

\* Ground row with a Spike standing on it next to the start, a coin behind.
LevelSpikeWall ==
    MakeLevel(3, 3,
        <<TileEmpty, TileEmpty, TileEmpty>> \o
        <<TileEmpty, TileSpike, TileEmpty>> \o
        <<TileGround, TileGround, TileGround>>,
        <<PlacedEntity("coin", 0, 1)>>, 0, 1)

\* A Question block right above the start.
LevelQuestion ==
    MakeLevel(2, 3,
        <<TileQuestion, TileEmpty>> \o
        <<TileEmpty, TileEmpty>> \o
        <<TileGround, TileGround>>,
        <<>>, 0, 1)

\* A Brick two rows above the start.
LevelBrick ==
    MakeLevel(2, 4,
        <<TileBrick, TileEmpty>> \o
        <<TileEmpty, TileEmpty>> \o
        <<TileEmpty, TileEmpty>> \o
        <<TileGround, TileGround>>,
        <<>>, 0, 2)

\* The same with a Mushroom placed on the start tile.
LevelBrickBig ==
    MakeLevel(2, 4,
        <<TileBrick, TileEmpty>> \o
        <<TileEmpty, TileEmpty>> \o
        <<TileEmpty, TileEmpty>> \o
        <<TileGround, TileGround>>,
        <<PlacedEntity("mushroom", 0, 2)>>, 0, 2)

\* One Ground tile under the start and nothing beside it.
LevelLedge ==
    MakeLevel(1, 3, <<TileEmpty>> \o <<TileEmpty>> \o <<TileGround>>, <<>>, 0, 1)

\* Ground row, a Spike standing on it right of the start and a Goomba one
\* tile above the start, which drops onto the player.
LevelShield ==
    MakeLevel(2, 4,
        <<TileEmpty, TileEmpty>> \o
        <<TileEmpty, TileEmpty>> \o
        <<TileEmpty, TileSpike>> \o
        <<TileGround, TileGround>>,
        <<PlacedEntity("goomba", 0, 1)>>, 0, 2)

\* Ground row, a Spike standing on it right of the start and a HardBlock
\* right of the Spike, which stops the player inside the Spike's cell.
LevelSpikeTrap ==
    MakeLevel(3, 3,
        <<TileEmpty, TileEmpty, TileEmpty>> \o
        <<TileEmpty, TileSpike, TileHardBlock>> \o
        <<TileGround, TileGround, TileGround>>,
        <<>>, 0, 1)

\* A Question block right above the start and a HardBlock above and right of
\* it, beside the cell the Mushroom is released in.
LevelRelease ==
    MakeLevel(2, 4,
        <<TileEmpty, TileHardBlock>> \o
        <<TileQuestion, TileEmpty>> \o
        <<TileEmpty, TileEmpty>> \o
        <<TileGround, TileGround>>,
        <<>>, 0, 2)

\* Ground row with a Mushroom standing on it right of the start.
LevelPowerUp ==
    MakeLevel(2, 2,
        <<TileEmpty, TileEmpty>> \o
        <<TileGround, TileGround>>,
        <<PlacedEntity("mushroom", 1, 0)>>, 0, 0)

\* One pipe tile under the start and nothing beside it.
LevelPipe ==
    MakeLevel(1, 3, <<TileEmpty>> \o <<TileEmpty>> \o <<TilePipeLeft>>, <<>>, 0, 1)

\* Ground row with a Goomba standing on its right tile; the start is two
\* rows above the ground, left of the Goomba.
LevelGoomba ==
    MakeLevel(2, 3,
        <<TileEmpty, TileEmpty>> \o
        <<TileEmpty, TileEmpty>> \o
        <<TileGround, TileGround>>,
        <<PlacedEntity("goomba", 1, 1)>>, 0, 0)

\* a grid value that is no TileType, as malformed level data may hold
TileUnknown == 11

\* Ground row, a tile of unknown kind standing on it right of the start and
\* a Goomba placed on top of that tile.
LevelUnknown ==
    MakeLevel(3, 3,
        <<TileEmpty, TileEmpty, TileEmpty>> \o
        <<TileEmpty, TileUnknown, TileEmpty>> \o
        <<TileGround, TileGround, TileGround>>,
        <<PlacedEntity("goomba", 1, 0)>>, 0, 1)

\* No ground at all: the player falls out of the level.
LevelPit ==
    MakeLevel(1, 1, <<TileEmpty>>, <<>>, 0, 0)

\* The pit with a Mushroom on the start tile.
LevelPitBig ==
    MakeLevel(1, 1, <<TileEmpty>>, <<PlacedEntity("mushroom", 0, 0)>>, 0, 0)

\* A single Ground row at the bottom, a Mushroom on the start tile and a
\* Goomba two tiles above it, which drops onto the player once they stand.
LevelBigHit ==
    MakeLevel(2, 4,
        <<TileEmpty, TileEmpty>> \o
        <<TileEmpty, TileEmpty>> \o
        <<TileEmpty, TileEmpty>> \o
        <<TileGround, TileGround>>,
        <<PlacedEntity("mushroom", 0, 2), PlacedEntity("goomba", 0, 0)>>, 0, 2)

\* ------------------------------------------------------------------ state

VARIABLES
    rev,          \* the engine revision this run executes
    scenario,     \* the level, character and controls chosen for the run
    level,        \* the caller's level object (the level prop)
    gs,           \* gameState.current
    onWinCalls,   \* invocations of the onWin prop so far
    onDieCalls,   \* invocations of the onDie prop so far
    rafPending,   \* an invocation of update is due (mount call or animation frame)
    updates,      \* invocations of update so far
    inputs,       \* input events so far
    spawned,      \* per grid index: mushrooms spawned by spawnMushroom
    strikes,      \* per grid index: head bumps resolved against the cell
    bigHits,      \* damage taken in Big form so far
    log,          \* what the last invocation of update did
    press,        \* the jump control: what holds it down, jumps since it went down;
                  \* the ability control: up or down, and down since a cooldown
    calc,         \* a call of the geometry functions: its arguments and results
    app,          \* the App component's state (mode, generation request, level)
    loop          \* the game-loop effect: its runs, their frame ids, the frames due

vars == <<rev, scenario, level, gs, onWinCalls, onDieCalls, rafPending,
          updates, inputs, spawned, strikes, bigHits, log, press, calc, app,
          loop>>

\* the variables of a mounted GameEngine
engineVars == <<rev, scenario, level, gs, onWinCalls, onDieCalls, rafPending,
                updates, inputs, spawned, strikes, bigHits, log, press>>

character == scenario.character

NoKeys == [k \in Keys |-> FALSE]

\* jumpForce and moveSpeed of the per-character table
CHARACTERS ==
    [Mario |-> [jumpForce |-> -Tenths(115), moveSpeed |-> Tenths(42)],
     Luigi |-> [jumpForce |-> -Tenths(108), moveSpeed |-> Tenths(39)],
     Toad  |-> [jumpForce |-> -Tenths(122), moveSpeed |-> Tenths(45)],
     Peach |-> [jumpForce |-> -Tenths(110), moveSpeed |-> Tenths(40)]]

\* the jump part of an update that has not reached it
NoJump == [pending |-> FALSE, applied |-> FALSE, vy |-> 0, grounded |-> FALSE,
           climbing |-> FALSE, onVine |-> FALSE]

EmptyLog == [ran |-> FALSE, damage |-> <<>>, bumps |-> <<>>, fell |-> FALSE,
             fellInv |-> 0, fellBig |-> FALSE, jump |-> NoJump,
             ability |-> [pending |-> FALSE], bottom |-> 0, contacts |-> <<>>,
             solid |-> <<>>, carried |-> 0, pickups |-> <<>>, spikes |-> <<>>,
             moves |-> <<>>]

\* The execution context the handlers of one update() work on: the engine
\* state, the caller's level object (written only through an alias), the
\* callback counts and the bookkeeping of the step.
Ctx == [gs |-> gs, level |-> level, win |-> onWinCalls, die |-> onDieCalls,
        raf |-> rafPending, spawned |-> spawned, strikes |-> strikes,
        bigHits |-> bigHits, log |-> EmptyLog]

\* useRef initial value
Constructed ==
    [keys |-> NoKeys,
     player |-> [x |-> 0, y |-> 0, w |-> 0, h |-> 0, vx |-> 0, vy |-> 0],
     entities |-> <<>>, grid |-> <<>>, gridAliased |-> FALSE,
     levelWidth |-> 0, levelHeight |-> 0, camera |-> 0,
     canJump |-> FALSE, isClimbing |-> FALSE, isBig |-> FALSE,
     invincibilityTimer |-> 0, abilityCooldown |-> 0,
     gameOver |-> FALSE, coins |-> 0]

\* level.entities.map(e => ({ ...e })): a new array of new objects.  src is
\* the index of the level's entity object a run-time entity is the same
\* object as, 0 for an object of the engine's own.
CloneEntities(ents) ==
    [i \in DOMAIN ents |->
        [type |-> ents[i].type, x |-> ents[i].x, y |-> ents[i].y,
         w |-> ents[i].w, h |-> ents[i].h, vx |-> ents[i].vx, vy |-> ents[i].vy,
         dead |-> ents[i].dead, lifespan |-> ents[i].lifespan,
         spawning |-> ents[i].spawning, spawnStartY |-> ents[i].spawnStartY,
         src |-> 0]]

\* state.grid taken from the level by reference
CloneGridShared == TRUE

\* [...level.grid]: gridAliased tells whether state.grid is the level's array.
CloneGridAliased == FALSE

DefaultPlayer(lvl) ==
    [x |-> lvl.startPos.x * TILE_SIZE, y |-> lvl.startPos.y * TILE_SIZE,
     w |-> PLAYER_W, h |-> SMALL_H, vx |-> 0, vy |-> 0]

EDITOR_COLS == 60
EDITOR_ROWS == 15

InitRun009(prev, lvl) ==
    [keys |-> NoKeys,
     player |-> DefaultPlayer(lvl),
     entities |-> CloneEntities(lvl.entities),
     grid |-> lvl.grid, gridAliased |-> CloneGridAliased,
     levelWidth |-> IF lvl.width = 0 THEN EDITOR_COLS ELSE lvl.width,
     levelHeight |-> IF lvl.height = 0 THEN EDITOR_ROWS ELSE lvl.height,
     camera |-> 0,
     canJump |-> FALSE, isClimbing |-> FALSE, isBig |-> FALSE,
     invincibilityTimer |-> 0, abilityCooldown |-> 0,
     gameOver |-> FALSE, coins |-> 0]

\* index of the first Player entity of a list, 0 if none
FindPlayer(ents) ==
    IF \E i \in DOMAIN ents : ents[i].type = "player"
    THEN CHOOSE i \in DOMAIN ents :
            /\ ents[i].type = "player"
            /\ \A j \in 1..(i - 1) : ents[j].type # "player"
    ELSE 0

RemoveAt(seq, i) == SubSeq(seq, 1, i - 1) \o SubSeq(seq, i + 1, Len(seq))

InitRun003(prev, lvl) ==
    LET copies == CloneEntities(lvl.entities)
        pi == FindPlayer(copies)
        playerEnt ==
            IF pi = 0 THEN DefaultPlayer(lvl)
            ELSE [x |-> copies[pi].x, y |-> copies[pi].y, w |-> PLAYER_W,
                  h |-> SMALL_H, vx |-> copies[pi].vx, vy |-> copies[pi].vy]
    IN [prev EXCEPT
          !.player = playerEnt,
          !.entities = IF pi = 0 THEN copies ELSE RemoveAt(copies, pi),
          !.grid = lvl.grid, !.gridAliased = CloneGridAliased,
          !.levelWidth = lvl.width, !.levelHeight = lvl.height,
          !.gameOver = FALSE, !.camera = 0, !.abilityCooldown = 0,
          !.isBig = FALSE, !.invincibilityTimer = 0, !.keys = NoKeys]

InitRun(prev, lvl) ==
    IF rev = "r009" THEN InitRun009(prev, lvl) ELSE InitRun003(prev, lvl)

\* ------------------------------------------------------ terminal handlers

handleDeath(ctx) == [ctx EXCEPT !.gs.gameOver = TRUE, !.die = @ + 1]

handleWin(ctx) == [ctx EXCEPT !.gs.gameOver = TRUE, !.win = @ + 1]

\* handleDamage without the invincibility guard
handleDamageUnshielded009(ctx) ==
    IF ctx.gs.isBig
    THEN [ctx EXCEPT !.gs.isBig = FALSE,
                     !.gs.invincibilityTimer = 120,
                     !.gs.player.y = @ + (BIG_H - SMALL_H),
                     !.gs.player.vy = -Px(3),
                     !.bigHits = @ + 1]
    ELSE handleDeath(ctx)

handleDamage009(ctx) ==
    IF ctx.gs.invincibilityTimer > 0 THEN ctx
    ELSE IF ctx.gs.isBig
         THEN [ctx EXCEPT !.gs.isBig = FALSE,
                          !.gs.invincibilityTimer = 120,
                          !.gs.player.y = @ + (BIG_H - SMALL_H),
                          !.gs.player.vy = -Px(3),
                          !.bigHits = @ + 1]
         ELSE handleDeath(ctx)

handleDamage003(ctx) ==
    IF ctx.gs.invincibilityTimer > 0 THEN ctx
    ELSE IF ctx.gs.isBig
         THEN [ctx EXCEPT !.gs.isBig = FALSE,
                          !.gs.invincibilityTimer = 120,
                          !.gs.player.vy = -Px(3),
                          !.gs.player.y = @ + TILE_SIZE \div 2,
                          !.bigHits = @ + 1]
         ELSE handleDeath(ctx)

\* the record of one call of handleDamage: the state it found and left
DamageCall(ctx, post) ==
    [inv |-> ctx.gs.invincibilityTimer, big |-> ctx.gs.isBig,
     over |-> ctx.gs.gameOver,
     same |-> (post = ctx),
     postInv |-> post.gs.invincibilityTimer,
     postBig |-> post.gs.isBig,
     postOver |-> post.gs.gameOver,
     died |-> post.die - ctx.die,
     won |-> post.win - ctx.win]

LogDamage(ctx, post) == [post EXCEPT !.log.damage = Append(@, DamageCall(ctx, post))]

\* handleDamage, with the call recorded in the step's log
handleDamage(ctx) ==
    LogDamage(ctx, IF rev = "r009" THEN handleDamage009(ctx) ELSE handleDamage003(ctx))

\* ------------------------------------------------------------- tile grid

\* grid[idx] as JavaScript reads it: undefined outside the array
TileUndefined == 0 - 1

RawCell(grid, idx) ==
    IF idx >= 0 /\ idx < Len(grid) THEN grid[idx + 1] ELSE TileUndefined

getTile(g, c, r) ==
    IF r < 0 \/ r >= g.levelHeight \/ c < 0 \/ c >= g.levelWidth
    THEN TileEmpty
    ELSE RawCell(g.grid, r * g.levelWidth + c)

\* state.grid[idx] = v; the level's array changes too when it is the same array
SetTile(ctx, idx, v) ==
    IF ctx.gs.gridAliased
    THEN [ctx EXCEPT !.gs.grid[idx + 1] = v, !.level.grid[idx + 1] = v]
    ELSE [ctx EXCEPT !.gs.grid[idx + 1] = v]

spawnMushroom009(gx, gy) ==
    [type |-> "mushroom", x |-> gx * TILE_SIZE, y |-> gy * TILE_SIZE + TILE_SIZE,
     w |-> TILE_SIZE, h |-> TILE_SIZE, vx |-> 0, vy |-> -Px(1),
     dead |-> FALSE, lifespan |-> NoLifespan,
     spawning |-> TRUE, spawnStartY |-> gy * TILE_SIZE, src |-> 0]

spawnMushroom003(gx, gy) ==
    [type |-> "mushroom", x |-> gx * TILE_SIZE, y |-> gy * TILE_SIZE,
     w |-> TILE_SIZE, h |-> TILE_SIZE, vx |-> 0, vy |-> -Px(1),
     dead |-> FALSE, lifespan |-> NoLifespan,
     spawning |-> TRUE, spawnStartY |-> gy * TILE_SIZE, src |-> 0]

spawnMushroom(ctx, gx, gy) ==
    [ctx EXCEPT !.gs.entities =
                    Append(@, IF rev = "r009" THEN spawnMushroom009(gx, gy)
                              ELSE spawnMushroom003(gx, gy)),
                !.spawned[gy * ctx.gs.levelWidth + gx] = @ + 1]

\* ------------------------------------------------- player / map collision

\* The cells of the rows startRow..endRow and columns startCol..endCol an
\* entity spans, in the order the nested loops visit them.
CellRange(e) ==
    LET startCol == Floor(e.x, TILE_SIZE)
        endCol == Floor(e.x + e.w, TILE_SIZE)
        startRow == Floor(e.y, TILE_SIZE)
        endRow == Floor(e.y + e.h, TILE_SIZE)
        cols == endCol - startCol + 1
        rows == endRow - startRow + 1
    IN [i \in 1..(rows * cols) |->
            [r |-> startRow + (i - 1) \div cols, c |-> startCol + ((i - 1) % cols)]]

Solid009(tile) == tile # TileEmpty /\ tile # TileSpike /\ tile # TileVineBase
Solid003(tile) == tile # TileEmpty /\ tile # TileSpike

PlayerSolid(tile) == IF rev = "r009" THEN Solid009(tile) ELSE Solid003(tile)

\* the record of one head bump: the cell, the tile and form found, the
\* tile left and the entities added
BumpRecord(ctx, post, idx, tile) ==
    [idx |-> idx, tile |-> tile, big |-> ctx.gs.isBig,
     after |-> post.gs.grid[idx + 1],
     gridSame |-> (post.gs.grid = ctx.gs.grid),
     spawnedNow |-> Len(post.gs.entities) - Len(ctx.gs.entities)]

LogBump(ctx, post, idx, tile) ==
    [post EXCEPT !.strikes[idx] = @ + 1,
                 !.log.bumps = Append(@, BumpRecord(ctx, post, idx, tile))]

\* a Question block that sprouts a mushroom and stays a Question block
StrikeQuestionKeepsTile(ctx, c, r) == spawnMushroom(ctx, c, r)

\* a Question block that breaks like a Brick as its mushroom sprouts
StrikeQuestionBreaks(ctx, c, r) ==
    spawnMushroom(SetTile(ctx, r * ctx.gs.levelWidth + c, TileEmpty), c, r)

\* a Question block struck from below: it hardens and a mushroom sprouts
StrikeQuestion(ctx, c, r) ==
    spawnMushroom(SetTile(ctx, r * ctx.gs.levelWidth + c, TileHardBlock), c, r)

\* a Brick that breaks under a player of either form
StrikeBrickAnyForm(ctx, c, r) == SetTile(ctx, r * ctx.gs.levelWidth + c, TileEmpty)

\* a Brick struck from below: it breaks under a Big player only
StrikeBrick(ctx, c, r) ==
    IF ctx.gs.isBig
    THEN SetTile(ctx, r * ctx.gs.levelWidth + c, TileEmpty)
    ELSE ctx

\* Tile Interaction (Head Bump)
TileInteraction(ctx, c, r, tile) ==
    IF tile = TileQuestion THEN StrikeQuestion(ctx, c, r)
    ELSE IF tile = TileBrick THEN StrikeBrick(ctx, c, r)
    ELSE ctx

HeadBump(ctx, c, r, tile) ==
    LogBump(ctx, TileInteraction(ctx, c, r, tile), r * ctx.gs.levelWidth + c, tile)

\* the body of `if (checkRectCollision(entity, tileRect))` for a solid tile
ResolveSolid(ctx, c, r, tile, axis) ==
    LET p == ctx.gs.player
        t == TileRect(c, r)
    IN IF axis = "x"
       THEN [ctx EXCEPT !.gs.player.x =
                           IF p.vx > 0 THEN t.x - p.w
                           ELSE IF p.vx < 0 THEN t.x + t.w ELSE @,
                        !.gs.player.vx = 0]
       ELSE IF p.vy > 0
            THEN [ctx EXCEPT !.gs.player.y = t.y - p.h,
                             !.gs.canJump = TRUE,
                             !.gs.player.vy = 0]
            ELSE IF p.vy < 0
                 THEN HeadBump([ctx EXCEPT !.gs.player.y = t.y + t.h,
                                           !.gs.player.vy = 0], c, r, tile)
                 ELSE [ctx EXCEPT !.gs.player.vy = 0]

\* Only check collision against solid tiles
SolidCheck(ctx, c, r, tile, axis) ==
    IF PlayerSolid(tile) /\ checkRectCollision(ctx.gs.player, TileRect(c, r))
    THEN [ResolveSolid(ctx, c, r, tile, axis) EXCEPT !.log.solid = Append(@, tile)]
    ELSE ctx

\* the spike check tied to the solid-tile test, which no Spike passes
SpikeCheckWhenSolid(ctx, c, r, tile) ==
    IF tile = TileSpike /\ PlayerSolid(tile)
       /\ checkRectCollision(ctx.gs.player, TileRect(c, r))
    THEN handleDamage(ctx)
    ELSE ctx

\* the step's record of the player overlapping a Spike: the timer, form and
\* gameOver flag the check found
LogSpike(ctx, post) ==
    [post EXCEPT !.log.spikes = Append(@,
        [inv |-> ctx.gs.invincibilityTimer, big |-> ctx.gs.isBig,
         over |-> ctx.gs.gameOver])]

\* the player overlapped the tile before the step's moves as well
OverlappedBefore(p, c, r) ==
    checkRectCollision([p EXCEPT !.x = @ - p.vx, !.y = @ - p.vy], TileRect(c, r))

\* the spike check that damages on first contact only
SpikeCheckOnEntry(ctx, c, r, tile) ==
    IF tile = TileSpike /\ checkRectCollision(ctx.gs.player, TileRect(c, r))
    THEN IF OverlappedBefore(ctx.gs.player, c, r) THEN LogSpike(ctx, ctx)
         ELSE LogSpike(ctx, handleDamage(ctx))
    ELSE ctx

\* Spike/Hazard collision (independent of solid block collision)
SpikeCheck(ctx, c, r, tile) ==
    IF tile = TileSpike /\ checkRectCollision(ctx.gs.player, TileRect(c, r))
    THEN LogSpike(ctx, handleDamage(ctx))
    ELSE ctx

CollideTile(ctx, c, r, tile, axis) ==
    SpikeCheck(SolidCheck(ctx, c, r, tile, axis), c, r, tile)

\* the tile of an in-range cell as the player's resolver reads it
PlayerTile(g, c, r) ==
    IF rev = "r009" THEN getTile(g, c, r) ELSE RawCell(g.grid, r * g.levelWidth + c)

\* one iteration of the loops of handleMapCollision
CollideCell(ctx, cell, axis) ==
    IF \/ cell.r < 0 \/ cell.r >= ctx.gs.levelHeight
       \/ cell.c < 0 \/ cell.c >= ctx.gs.levelWidth
    THEN ctx
    ELSE CollideTile(ctx, cell.c, cell.r, PlayerTile(ctx.gs, cell.c, cell.r), axis)

RECURSIVE CollideCells(_, _, _)
CollideCells(ctx, cells, axis) ==
    IF cells = <<>> THEN ctx
    ELSE CollideCells(CollideCell(ctx, Head(cells), axis), Tail(cells), axis)

handleMapCollision(ctx, axis) == CollideCells(ctx, CellRange(ctx.gs.player), axis)

\* -------------------------------------------------- enemy / map collision

\* one iteration of the loops of handleEntityMapCollision (part_009)
EntityCollideCell009(g, e, cell, axis) ==
    LET r == cell.r
        c == cell.c
        t == TileRect(c, r)
    IN IF r < 0 \/ r >= g.levelHeight \/ c < 0 \/ c >= g.levelWidth
       THEN e
       ELSE LET tile == getTile(g, c, r)
            IN IF tile # TileEmpty /\ tile # TileSpike /\ checkRectCollision(e, t)
               THEN IF axis = "x"
                    THEN [e EXCEPT !.x = IF e.vx > 0 THEN t.x - e.w
                                         ELSE IF e.vx < 0 THEN t.x + t.w ELSE @,
                                   !.vx = -e.vx]
                    ELSE [e EXCEPT !.y = IF e.vy > 0 THEN t.y - e.h
                                         ELSE IF e.vy < 0 THEN t.y + t.h ELSE @,
                                   !.vy = 0]
               ELSE e

RECURSIVE EntityCollideCells009(_, _, _, _)
EntityCollideCells009(g, e, cells, axis) ==
    IF cells = <<>> THEN e
    ELSE EntityCollideCells009(g, EntityCollideCell009(g, e, Head(cells), axis),
                               Tail(cells), axis)

\* Check for ledge drop (only if moving and not spawning)
LedgeCheck009(g, e) ==
    IF ~e.spawning /\ Abs(e.vx) > Tenths(1)
    THEN LET nextGridX == Floor(e.x + e.w \div 2 + e.vx * 32, TILE_SIZE)
             groundY == Floor(e.y + e.h, TILE_SIZE)
         IN IF getTile(g, nextGridX, groundY) = TileEmpty
            THEN [e EXCEPT !.vx = -e.vx]
            ELSE e
    ELSE e

handleEntityMapCollision009(g, entity, axis) ==
    LedgeCheck009(g, EntityCollideCells009(g, entity, CellRange(entity), axis))

\* Floor: the tile under the entity's centre, by raw grid index
Floor003(g, e, bottomY, centerX) ==
    IF /\ bottomY < g.levelHeight /\ bottomY >= 0
       /\ RawCell(g.grid, bottomY * g.levelWidth + centerX) # TileEmpty
       /\ RawCell(g.grid, bottomY * g.levelWidth + centerX) # TileSpike
    THEN [e EXCEPT !.y = bottomY * TILE_SIZE - e.h, !.vy = 0]
    ELSE e

\* Walls: the tiles at the entity's right and left edge, by raw grid index
WallRight003(g, e, wallTileRight) ==
    IF wallTileRight # TileEmpty /\ wallTileRight # TileSpike /\ e.vx > 0
    THEN [e EXCEPT !.vx = -e.vx]
    ELSE e

WallLeft003(g, e, wallTileLeft) ==
    IF wallTileLeft # TileEmpty /\ wallTileLeft # TileSpike /\ e.vx < 0
    THEN [e EXCEPT !.vx = -e.vx]
    ELSE e

handleEntityMapCollision003(g, entity) ==
    LET bottomY == Floor(entity.y + entity.h, TILE_SIZE)
        centerX == Floor(entity.x + entity.w \div 2, TILE_SIZE)
        rightX == Floor(entity.x + entity.w, TILE_SIZE)
        leftX == Floor(entity.x, TILE_SIZE)
        centerY == Floor(entity.y + entity.h \div 2, TILE_SIZE)
    IN WallLeft003(g,
          WallRight003(g, Floor003(g, entity, bottomY, centerX),
                       RawCell(g.grid, centerY * g.levelWidth + rightX)),
          RawCell(g.grid, centerY * g.levelWidth + leftX))

\* ------------------------------------------------------------ entity sweep

\* The callback of state.entities.filter: the entity as the callback leaves
\* it, and whether it is kept.

\* if (e.lifespan !== undefined) e.lifespan--
Age(e) == IF e.lifespan # NoLifespan THEN [e EXCEPT !.lifespan = @ - 1] ELSE e

Expired(e) == e.lifespan # NoLifespan /\ e.lifespan <= 0

\* the filter callback's answer for an entity it did not expire
Kept(e) == [e |-> e, keep |-> ~e.dead]

\* Mushroom Spawning Animation (part_009)
Spawning009(e) ==
    IF e.y + e.vy < e.spawnStartY - TILE_SIZE
    THEN [e EXCEPT !.y = e.spawnStartY - TILE_SIZE,
                   !.spawning = FALSE, !.vy = 0, !.vx = Px(2)]
    ELSE IF e.type = "mushroom" /\ e.vy = 0
         THEN [e EXCEPT !.y = @ + e.vy, !.vy = -Px(1)]
         ELSE [e EXCEPT !.y = @ + e.vy]

\* Mushroom Spawning Animation (part_003)
Spawning003(e) ==
    IF e.y + e.vy <= e.spawnStartY - TILE_SIZE
    THEN [e EXCEPT !.y = e.spawnStartY - TILE_SIZE,
                   !.spawning = FALSE, !.vy = 0, !.vx = Px(2)]
    ELSE [e EXCEPT !.y = @ + e.vy]

MoveEntityX(e) == [e EXCEPT !.x = @ + e.vx]
MoveEntityY(e) == [e EXCEPT !.y = @ + e.vy]
MoveEntityXY(e) == [e EXCEPT !.x = @ + e.vx, !.y = @ + e.vy]

\* Enemy Physics (part_009): gravity, then one move and one resolution per axis
EnemyPhysics009(g, e) ==
    handleEntityMapCollision009(g,
        MoveEntityY(handleEntityMapCollision009(g,
            MoveEntityX([e EXCEPT !.vy = @ + GRAVITY]), "x")), "y")

\* Enemy Physics (part_003): gravity, both moves, then one resolution
EnemyPhysics003(g, e) ==
    handleEntityMapCollision003(g, MoveEntityXY([e EXCEPT !.vy = @ + GRAVITY]))

EnemyPhysics(g, e) ==
    IF rev = "r009" THEN EnemyPhysics009(g, e) ELSE EnemyPhysics003(g, e)

Spawning(e) == IF rev = "r009" THEN Spawning009(e) ELSE Spawning003(e)

\* the filter callback runs the enemy physics for the entity, and the entity
\* has a horizontal velocity
Walks(e) ==
    /\ ~Expired(e) /\ ~e.spawning /\ ~e.dead
    /\ e.type \in {"goomba", "mushroom"}
    /\ e.vx # 0

\* the filter callback for an entity whose lifespan has been counted down
SweepAged(g, e) ==
    IF Expired(e) THEN [e |-> e, keep |-> FALSE]
    ELSE IF e.spawning THEN [e |-> Spawning(e), keep |-> TRUE]
    ELSE IF ~e.dead /\ e.type \in {"goomba", "mushroom"}
         THEN Kept(EnemyPhysics(g, e))
         ELSE Kept(e)

SweepEntity(g, e) == SweepAged(g, Age(e))

\* writes to an entity object reach the level's object when they are the same
WriteThrough(lvl, e) ==
    IF e.src = 0 THEN lvl
    ELSE [lvl EXCEPT !.entities[e.src] =
            [type |-> e.type, x |-> e.x, y |-> e.y, w |-> e.w, h |-> e.h,
             vx |-> e.vx, vy |-> e.vy, dead |-> e.dead, lifespan |-> e.lifespan,
             spawning |-> e.spawning, spawnStartY |-> e.spawnStartY]]

RECURSIVE SweepFrom(_, _, _)
RECURSIVE SweepNext(_, _, _, _)
\* state.entities = state.entities.filter(...), from the i-th entity on;
\* kept is the new array so far
SweepFrom(ctx, i, kept) ==
    IF i > Len(ctx.gs.entities) THEN [ctx EXCEPT !.gs.entities = kept]
    ELSE SweepNext(ctx, i, kept, SweepEntity(ctx.gs, ctx.gs.entities[i]))

SweepNext(ctx, i, kept, res) ==
    SweepFrom([ctx EXCEPT !.level = WriteThrough(@, res.e),
                          !.log.carried = IF res.keep /\ res.e.dead THEN @ + 1 ELSE @,
                          !.log.moves = IF Walks(Age(ctx.gs.entities[i]))
                                        THEN Append(@, [pre |-> ctx.gs.entities[i],
                                                        post |-> res.e])
                                        ELSE @],
              i + 1,
              IF res.keep THEN Append(kept, res.e) ELSE kept)

SweepEntities(ctx) == SweepFrom(ctx, 1, <<>>)

\* --------------------------------------------------------------- abilities

Vine(col, row) ==
    [type |-> "vine", x |-> col * TILE_SIZE + (TILE_SIZE - Px(16)) \div 2,
     y |-> row * TILE_SIZE, w |-> Px(16), h |-> TILE_SIZE, vx |-> 0, vy |-> 0,
     dead |-> FALSE, lifespan |-> 600,
     spawning |-> FALSE, spawnStartY |-> 0, src |-> 0]

RECURSIVE FindGround009(_, _, _)
\* while (groundY < levelHeight && getTile(pGridX, groundY) === Empty) groundY++
FindGround009(g, col, groundY) ==
    IF groundY < g.levelHeight /\ getTile(g, col, groundY) = TileEmpty
    THEN FindGround009(g, col, groundY + 1)
    ELSE groundY

RECURSIVE Sprout009(_, _, _, _)
\* the for loop of Toad's ability, from iteration i on
Sprout009(g, col, groundY, i) ==
    IF i >= 8 \/ groundY - i < 0 THEN <<>>
    ELSE LET tile == getTile(g, col, groundY - i)
         IN IF tile # TileEmpty /\ tile # TileSpike /\ tile # TilePipeLeft
            THEN <<>>
            ELSE <<Vine(col, groundY - i)>> \o Sprout009(g, col, groundY, i + 1)

handleAbility009(ctx) ==
    LET g == ctx.gs
        p == g.player
    IN IF character = "Peach"
       THEN [ctx EXCEPT !.gs.invincibilityTimer = 180, !.gs.abilityCooldown = 300]
       ELSE IF character = "Toad"
       THEN LET pGridX == Floor(p.x + p.w \div 2, TILE_SIZE)
                startY == Floor(p.y + p.h, TILE_SIZE)
                groundY == FindGround009(g, pGridX, startY)
            IN IF groundY >= g.levelHeight THEN ctx
               ELSE [ctx EXCEPT !.gs.entities = @ \o Sprout009(g, pGridX, groundY, 0),
                                !.gs.abilityCooldown = 120]
       ELSE ctx

RECURSIVE Sprout003(_, _, _, _)
Sprout003(g, col, startY, i) ==
    IF i >= 8 \/ startY - i < 0 THEN <<>>
    ELSE LET tileIndex == (startY - i) * g.levelWidth + col
             tile == RawCell(g.grid, tileIndex)
         IN IF tileIndex >= 0 /\ tileIndex < Len(g.grid)
               /\ tile # TileEmpty /\ tile # TileSpike /\ tile # TileUndefined
            THEN <<>>
            ELSE <<Vine(col, startY - i)>> \o Sprout003(g, col, startY, i + 1)

handleAbility003(ctx) ==
    LET g == ctx.gs
        p == g.player
    IN IF character = "Toad"
       THEN LET col == Floor(p.x + p.w \div 2, TILE_SIZE)
                startY == Floor(p.y + p.h, TILE_SIZE)
            IN [ctx EXCEPT !.gs.entities = @ \o Sprout003(g, col, startY, 0),
                           !.gs.abilityCooldown = 120]
       ELSE ctx

handleAbility(ctx) ==
    IF rev = "r009" THEN handleAbility009(ctx) ELSE handleAbility003(ctx)

\* ------------------------------------------- player / entity interaction

\* the body of the loop `for (const e of state.entities)` for the i-th entity
\* the stomp test without the comparison of heights
StompsFromAnywhere(p, e) == p.vy > 0

\* p is moving down AND p's bottom was above e's midpoint
Stomps(p, e) == p.vy > 0 /\ p.y + p.h - p.vy <= e.y + e.h \div 2

Interact009(ctx, i) ==
    LET g == ctx.gs
        p == g.player
        e == g.entities[i]
    IN IF ~checkRectCollision(p, e) THEN ctx
       ELSE IF e.type = "goal" THEN handleWin(ctx)
       ELSE IF e.type = "coin"
       THEN [ctx EXCEPT !.gs.entities[i].dead = TRUE, !.gs.coins = @ + 1]
       ELSE IF e.type = "mushroom"
       THEN [ctx EXCEPT !.gs.entities[i].dead = TRUE, !.gs.isBig = TRUE,
                        !.gs.invincibilityTimer = 60]
       ELSE IF e.type = "vine"
       THEN IF g.keys["up"] \/ g.keys["down"]
            THEN [ctx EXCEPT !.gs.isClimbing = TRUE, !.gs.canJump = TRUE,
                             !.gs.player.vy = 0]
            ELSE ctx
       ELSE IF e.type = "goomba"
       THEN IF Stomps(p, e)
            THEN [ctx EXCEPT !.gs.entities[i].dead = TRUE,
                             !.gs.player.vy = JUMP_FORCE \div 2]
            ELSE handleDamage(ctx)
       ELSE ctx

Interact003(ctx, i) ==
    LET g == ctx.gs
        p == g.player
        e == g.entities[i]
    IN IF ~checkRectCollision(p, e) THEN ctx
       ELSE IF e.type = "goal" THEN handleWin(ctx)
       ELSE IF e.type = "coin"
       THEN [ctx EXCEPT !.gs.entities[i].dead = TRUE]
       ELSE IF e.type = "mushroom"
       THEN [ctx EXCEPT !.gs.entities[i].dead = TRUE, !.gs.isBig = TRUE]
       ELSE IF e.type = "vine"
       THEN [ctx EXCEPT !.gs.isClimbing = TRUE, !.gs.canJump = TRUE]
       ELSE IF e.type = "goomba"
       THEN IF Stomps(p, e)
            THEN [ctx EXCEPT !.gs.entities[i].dead = TRUE,
                             !.gs.player.vy = JUMP_FORCE \div 2]
            ELSE handleDamage(ctx)
       ELSE ctx

\* the i-th entity's fields as the loop body left them, seen through the
\* level's object when the two are the same
Written(ctx, i) == [ctx EXCEPT !.level = WriteThrough(@, ctx.gs.entities[i])]

RECURSIVE InteractFrom(_, _)
\* the step's record of the player meeting a Goomba: the velocity at the
\* test, the bottom edge before the vertical move, the Goomba's midpoint, and
\* what the loop body (post) did
LogContact(ctx, post, i) ==
    IF ctx.gs.entities[i].type = "goomba"
       /\ checkRectCollision(ctx.gs.player, ctx.gs.entities[i])
    THEN [post EXCEPT !.log.contacts = Append(@,
            [vy |-> ctx.gs.player.vy,
             bottom |-> ctx.log.bottom,
             mid |-> ctx.gs.entities[i].y + ctx.gs.entities[i].h \div 2,
             killed |-> post.gs.entities[i].dead,
             postVy |-> post.gs.player.vy,
             damage |-> Len(post.log.damage) - Len(ctx.log.damage)])]
    ELSE post

\* the step's record of the player meeting a Coin or a Mushroom: whether the
\* entity was dead already, and the timer before and after the loop body
LogPickup(ctx, post, i) ==
    IF ctx.gs.entities[i].type \in {"coin", "mushroom"}
       /\ checkRectCollision(ctx.gs.player, ctx.gs.entities[i])
    THEN [post EXCEPT !.log.pickups = Append(@,
            [type |-> ctx.gs.entities[i].type,
             wasDead |-> ctx.gs.entities[i].dead,
             spawning |-> ctx.gs.entities[i].spawning,
             timer |-> ctx.gs.invincibilityTimer,
             postTimer |-> post.gs.invincibilityTimer,
             coins |-> post.gs.coins - ctx.gs.coins])]
    ELSE post

InteractFrom(ctx, i) ==
    IF i > Len(ctx.gs.entities) THEN ctx
    ELSE InteractFrom(
            Written(LogPickup(ctx, LogContact(ctx, IF rev = "r009" THEN Interact009(ctx, i)
                                                   ELSE Interact003(ctx, i), i), i), i),
            i + 1)

InteractEntities(ctx) == InteractFrom(ctx, 1)

\* ------------------------------------------------------ the simulation step

\* Update Player Size based on state
SizeTransition009(g) ==
    LET p == g.player
        targetH == IF g.isBig THEN BIG_H ELSE SMALL_H
    IN IF Abs(p.h - targetH) * 100 > Px(1)
       THEN [g EXCEPT !.player.y = IF targetH > p.h THEN @ - (targetH - p.h) ELSE @,
                      !.player.h = targetH]
       ELSE g

SizeTransition003(g) ==
    LET p == g.player
        targetH == IF g.isBig THEN BIG_H ELSE SMALL_H
    IN IF Abs(p.h - targetH) > Px(1)
       THEN [g EXCEPT !.player.y = @ - (targetH - p.h), !.player.h = targetH]
       ELSE g

\* the timers counted down, the cooldown by 2 per step
TickTimersFast(g) ==
    [g EXCEPT !.abilityCooldown = IF @ > 0 THEN Max(@ - 2, 0) ELSE @,
              !.invincibilityTimer = IF @ > 0 THEN @ - 1 ELSE @]

TickTimers(g) ==
    [g EXCEPT !.abilityCooldown = IF @ > 0 THEN @ - 1 ELSE @,
              !.invincibilityTimer = IF @ > 0 THEN @ - 1 ELSE @]

\* the horizontal control without friction and the snap to 0
HorizontalNoFriction(g) ==
    LET v0 == g.player.vx
        v1 == IF g.keys["left"] THEN v0 - Px(1) ELSE v0
        v2 == IF g.keys["right"] THEN v1 + Px(1) ELSE v1
        v5 == IF v2 > MOVE_SPEED THEN MOVE_SPEED ELSE v2
        v6 == IF v5 < -MOVE_SPEED THEN -MOVE_SPEED ELSE v5
    IN [g EXCEPT !.player.vx = v6]

\* the horizontal control without the two limit tests
HorizontalUnlimited(g) ==
    LET v0 == g.player.vx
        v1 == IF g.keys["left"] THEN v0 - Px(1) ELSE v0
        v2 == IF g.keys["right"] THEN v1 + Px(1) ELSE v1
        v3 == Scaled(v2, FRICTION_PCT, 100)
        v4 == IF Abs(v3) < Tenths(1) THEN 0 ELSE v3
    IN [g EXCEPT !.player.vx = v4]

\* Horizontal Movement, Friction and Limits
Horizontal(g) ==
    LET v0 == g.player.vx
        v1 == IF g.keys["left"] THEN v0 - Px(1) ELSE v0
        v2 == IF g.keys["right"] THEN v1 + Px(1) ELSE v1
        v3 == Scaled(v2, FRICTION_PCT, 100)
        v4 == IF Abs(v3) < Tenths(1) THEN 0 ELSE v3
        v5 == IF v4 > MOVE_SPEED THEN MOVE_SPEED ELSE v4
        v6 == IF v5 < -MOVE_SPEED THEN -MOVE_SPEED ELSE v5
    IN [g EXCEPT !.player.vx = v6]

\* Gravity / Climbing
Vertical(g) ==
    LET vy0 == g.player.vy
        vy1 == IF g.isClimbing
               THEN IF g.keys["down"] THEN CLIMB_SPEED
                    ELSE IF g.keys["up"] THEN -CLIMB_SPEED ELSE 0
               ELSE vy0 + GRAVITY
        vy2 == IF rev = "r009" /\ vy1 > Px(10) THEN Px(10) ELSE vy1
    IN [g EXCEPT !.player.vy = vy2]

JumpImpulse009 == IF character = "Luigi" THEN (JUMP_FORCE * 12) \div 10 ELSE JUMP_FORCE
JumpImpulse003 == JUMP_FORCE

Jump(g) ==
    IF g.keys["jump"]
    THEN LET g1 == IF g.canJump \/ g.isClimbing
                   THEN [g EXCEPT !.player.vy = IF rev = "r009" THEN JumpImpulse009
                                                ELSE JumpImpulse003,
                                  !.canJump = FALSE, !.isClimbing = FALSE]
                   ELSE g
         IN [g1 EXCEPT !.keys["jump"] = FALSE]
    ELSE g

\* the ability dispatch without its cooldown test
AbilityAnyCooldown(ctx) ==
    IF ctx.gs.keys["ability"]
    THEN [handleAbility(ctx) EXCEPT !.gs.keys["ability"] = FALSE]
    ELSE ctx

Ability(ctx) ==
    IF ctx.gs.keys["ability"] /\ ctx.gs.abilityCooldown <= 0
    THEN [handleAbility(ctx) EXCEPT !.gs.keys["ability"] = FALSE]
    ELSE ctx

\* the step's record of its ability part when the input was set: the game
\* state the dispatch found (pre) and the one it left (post)
LogAbility(ctx, post) ==
    [post EXCEPT !.log.ability =
        IF ctx.gs.keys["ability"]
        THEN [pending |-> TRUE, pre |-> ctx.gs, post |-> post.gs]
        ELSE [pending |-> FALSE]]

AbilityPart(ctx) == LogAbility(ctx, Ability(ctx))

\* p.x += p.vx; handleMapCollision(p, 'x'); p.y += p.vy; handleMapCollision(p, 'y')
MoveX(ctx) == [ctx EXCEPT !.gs.player.x = @ + ctx.gs.player.vx]
MoveY(ctx) ==
    [ctx EXCEPT !.gs.player.y = @ + ctx.gs.player.vy,
                !.log.bottom = ctx.gs.player.y + ctx.gs.player.h]

\* Reset canJump if we are falling/moving vertically (part_009)
ResetCanJump(ctx) ==
    IF rev = "r009" /\ ctx.gs.player.vy # 0
    THEN [ctx EXCEPT !.gs.canJump = FALSE]
    ELSE ctx

MoveAndCollide(ctx) ==
    ResetCanJump(handleMapCollision(MoveY(handleMapCollision(MoveX(ctx), "x")), "y"))

\* the player is below the bottom edge of the level
BelowLevel(g) == g.player.y > g.levelHeight * TILE_SIZE

\* the fall check sparing an invulnerable player
FallDeathShielded(ctx) ==
    IF BelowLevel(ctx.gs) /\ ctx.gs.invincibilityTimer <= 0
    THEN handleDeath(ctx)
    ELSE ctx

\* if (p.y > state.levelHeight * TILE_SIZE) handleDeath()
FallDeath(ctx) == IF BelowLevel(ctx.gs) THEN handleDeath(ctx) ELSE ctx

\* the step's record of where the vertical move left the player
LogFall(ctx, post) ==
    [post EXCEPT !.log.fell = BelowLevel(ctx.gs),
                 !.log.fellInv = ctx.gs.invincibilityTimer,
                 !.log.fellBig = ctx.gs.isBig]

FallCheck(ctx) == LogFall(ctx, FallDeath(ctx))

\* canvas.width, the width of the window
CanvasWidth == 64

\* the camera part of render
Camera(g) ==
    LET width == Px(CanvasWidth)
        target == Max(0, Min(g.player.x - width \div 2,
                             g.levelWidth * TILE_SIZE - width))
    IN IF rev = "r009"
       THEN [g EXCEPT !.camera = @ + Scaled(target - @, 1, 10)]
       ELSE [g EXCEPT !.camera = target]

\* the body of update after the gameOver guard
SizeTransition(g) ==
    IF rev = "r009" THEN SizeTransition009(g) ELSE SizeTransition003(g)

\* the player's bottom edge rests on the top edge of a solid tile
Grounded(g) ==
    \E c \in 0..(g.levelWidth - 1), r \in 0..(g.levelHeight - 1) :
        /\ PlayerSolid(PlayerTile(g, c, r))
        /\ g.player.y + g.player.h = r * TILE_SIZE
        /\ g.player.x < (c + 1) * TILE_SIZE
        /\ g.player.x + g.player.w > c * TILE_SIZE

\* the player overlaps a vine
OnVine(g) ==
    \E i \in 1..Len(g.entities) :
        g.entities[i].type = "vine" /\ checkRectCollision(g.player, g.entities[i])

\* the step's record of its jump part: what it found (g) and whether the
\* impulse replaced the vertical velocity (post)
JumpRecord(g, post) ==
    [pending |-> g.keys["jump"],
     applied |-> post.player.vy # g.player.vy,
     vy |-> post.player.vy,
     grounded |-> Grounded(g),
     climbing |-> g.isClimbing,
     onVine |-> OnVine(g)]

\* the velocities before the jump part: size, timers, run, gravity or climb
PreJump(ctx) == [ctx EXCEPT !.gs = Vertical(Horizontal(TickTimers(SizeTransition(@))))]

JumpPart(ctx) ==
    [ctx EXCEPT !.gs = Jump(@), !.log.jump = JumpRecord(ctx.gs, Jump(ctx.gs))]

\* the player's velocities for the step, from the keys and the timers
Controls(ctx) == JumpPart(PreJump(ctx))

\* state.isClimbing = false, before the entity loops
ClearClimbing(ctx) == [ctx EXCEPT !.gs.isClimbing = FALSE]

\* render(); requestRef.current = requestAnimationFrame(update)
RenderAndSchedule(ctx) == [ctx EXCEPT !.gs = Camera(@), !.raf = TRUE, !.log.ran = TRUE]

Frame(ctx) ==
    RenderAndSchedule(
        InteractEntities(SweepEntities(ClearClimbing(
            FallCheck(MoveAndCollide(AbilityPart(Controls(ctx))))))))

\* update without the gameOver guard
updateUnguarded(ctx) == Frame(ctx)

update(ctx) ==
    IF ctx.gs.gameOver THEN [ctx EXCEPT !.raf = FALSE] ELSE Frame(ctx)

\* ---------------------------------------------------------------- bounds

MaxUpdates == 14
MaxLongUpdates == 184
MaxInputs == 3

\* in a long run the input events arrive during its first updates
InputWindow == 3
LateWindow == 6

\* ------------------------------------------------------------- scenarios

Run(name, lvl, char, keys, long) ==
    [name |-> name, level |-> lvl, character |-> char, keys |-> keys, long |-> long]

Scenarios ==
    { Run("goalTile", LevelGoalTile, "Mario", {"right", "jump"}, FALSE),
      Run("goalEntity", LevelGoalEntity, "Mario", {"right", "jump"}, FALSE),
      Run("spikeDrop", LevelSpikeDrop, "Mario", {"right", "jump"}, FALSE),
      Run("spikeWall", LevelSpikeWall, "Luigi", {"right", "jump"}, FALSE),
      Run("question", LevelQuestion, "Mario", {"right", "jump"}, FALSE),
      Run("brick", LevelBrick, "Mario", {"right", "jump"}, FALSE),
      Run("brickBig", LevelBrickBig, "Luigi", {"right", "jump"}, FALSE),
      Run("pit", LevelPit, "Peach", {"ability", "jump"}, FALSE),
      Run("pitBig", LevelPitBig, "Toad", {"ability", "jump"}, FALSE),
      Run("ledge", LevelLedge, "Mario", {"left", "jump"}, FALSE),
      Run("sprout", LevelLedge, "Toad", {"ability"}, FALSE),
      Run("ghost", LevelLedge, "Luigi", {"ability"}, FALSE),
      Run("shield", LevelShield, "Peach", {"ability", "right"}, FALSE),
      Run("unknown", LevelUnknown, "Mario", {"right"}, FALSE),
      Run("stomp", LevelGoomba, "Mario", {"right"}, FALSE),
      Run("powerUp", LevelPowerUp, "Peach", {"ability", "right"}, FALSE),
      Run("bothWays", LevelGoalTile, "Mario", {"left", "right"}, FALSE),
      Run("vines", LevelPipe, "Toad", {"ability"}, TRUE),
      Run("release", LevelRelease, "Mario", {"jump"}, TRUE),
      Run("spikeTrap", LevelSpikeTrap, "Peach", {"ability", "right"}, TRUE),
      Run("bigHit", LevelBigHit, "Mario", {}, TRUE) }

\* the updates of a long run after which inputs still arrive: those before
\* the player first stands where the run needs one from the ground
Window == IF scenario.name = "release" THEN LateWindow ELSE InputWindow

Horizon == IF scenario.long THEN MaxLongUpdates ELSE MaxUpdates

Cells(lvl) == 0..(Len(lvl.grid) - 1)

\* -------------------------------------------------------- initial states

\* The state once the initialisation effect has run for the mounted engine;
\* the game-loop effect's own call of update is the first Update step.
Mounted ==
    /\ level = scenario.level
    /\ gs = InitRun(Constructed, level)
    /\ onWinCalls = 0
    /\ onDieCalls = 0
    /\ rafPending = TRUE
    /\ updates = 0
    /\ inputs = 0
    /\ spawned = [i \in Cells(level) |-> 0]
    /\ strikes = [i \in Cells(level) |-> 0]
    /\ bigHits = 0
    /\ log = EmptyLog
    /\ press = [dev |-> "none", jumps |-> 0, up |-> TRUE, stale |-> FALSE,
                fired |-> 0, gap |-> 0]

\* the game-loop effect before its first run: no closure, no frame due
NoLoop == [gen |-> 0, live |-> FALSE, frameId |-> <<>>, pending |-> {}, nextId |-> 1,
           over |-> FALSE, ran |-> 0, late |-> FALSE, frames |-> 0, stopped |-> {}]

\* the game-loop effect of a mounted engine: one run, its frame due
Looping == [NoLoop EXCEPT !.gen = 1, !.live = TRUE, !.frameId = <<1>>,
                          !.pending = {[id |-> 1, gen |-> 1]}, !.nextId = 2]

\* no call of the geometry functions is in progress
NoCalc == [done |-> FALSE]

\* the App while it shows the GameEngine
Playing == [mode |-> "play", mounted |-> TRUE, generating |-> FALSE,
            request |-> "none", prompt |-> FALSE, levelKey |-> 0, version |-> 0,
            alerts |-> 0, lastAlert |-> "none", last |-> "play", events |-> 0,
            file |-> "App.tsx"]

Init ==
    /\ rev \in Revisions
    /\ scenario \in Scenarios
    /\ Mounted
    /\ calc = NoCalc
    /\ app = Playing
    /\ loop = Looping

\* ---------------------------------------------------------------- actions

\* the jump control goes down: a new press unless it is already held (the
\* keydown events of a held key are its auto-repeat)
PressDown(k, dev) ==
    IF k = "jump" /\ press.dev = "none"
    THEN [press EXCEPT !.dev = dev, !.jumps = 0]
    ELSE IF k = "ability" /\ press.up
    THEN [press EXCEPT !.up = FALSE, !.stale = (gs.abilityCooldown > 0)]
    ELSE press

PressUp(k, dev) ==
    IF k = "jump" /\ press.dev = dev THEN [press EXCEPT !.dev = "none"]
    ELSE IF k = "ability" THEN [press EXCEPT !.up = TRUE, !.stale = FALSE]
    ELSE press

InputEvent(k, newKeys, newPress) ==
    /\ updates > 0
    /\ k \in scenario.keys
    /\ inputs < MaxInputs
    /\ scenario.long => updates <= Window
    /\ newKeys # gs.keys \/ newPress # press
    /\ gs' = [gs EXCEPT !.keys = newKeys]
    /\ press' = newPress
    /\ inputs' = inputs + 1
    /\ UNCHANGED <<rev, scenario, level, onWinCalls, onDieCalls, rafPending,
                   updates, spawned, strikes, bigHits, log, calc, app, loop>>

\* keydown listener of part_009 (part_003 has no keyboard input)
handleKeyDown(keys, over, k) ==
    IF over THEN keys ELSE [keys EXCEPT ![k] = TRUE]

handleKeyUp(keys, k) == [keys EXCEPT ![k] = FALSE]

handleTouch009(keys, k, pressed) ==
    IF k = "jump" /\ pressed
    THEN IF ~keys["jump"] THEN [keys EXCEPT !["jump"] = TRUE] ELSE keys
    ELSE [keys EXCEPT ![k] = pressed]

handleTouch003(keys, k, pressed) == [keys EXCEPT ![k] = pressed]

KeyDown ==
    \E k \in Keys :
        /\ rev = "r009"
        /\ k = "jump" => press.dev \in {"none", "key"}
        /\ InputEvent(k, handleKeyDown(gs.keys, gs.gameOver, k), PressDown(k, "key"))

KeyUp ==
    \E k \in Keys :
        /\ rev = "r009"
        /\ k = "jump" => press.dev = "key"
        /\ InputEvent(k, handleKeyUp(gs.keys, k), PressUp(k, "key"))

Touch ==
    \E k \in Keys, pressed \in BOOLEAN :
        /\ (k = "jump" /\ pressed) => press.dev = "none"
        /\ InputEvent(k, IF rev = "r009" THEN handleTouch009(gs.keys, k, pressed)
                         ELSE handleTouch003(gs.keys, k, pressed),
                      IF pressed THEN PressDown(k, "touch") ELSE PressUp(k, "touch"))

\* the update called handleAbility
Invoked(l) == l.ability.pending /\ l.ability.pre.abilityCooldown <= 0

\* the state an invocation of update leaves behind; press keeps the update
\* that last set abilityCooldown to 120 and the updates from it to the next
\* call of handleAbility
Commit(out) ==
    /\ gs' = out.gs
    /\ level' = out.level
    /\ onWinCalls' = out.win
    /\ onDieCalls' = out.die
    /\ rafPending' = out.raf
    /\ spawned' = out.spawned
    /\ strikes' = out.strikes
    /\ bigHits' = out.bigHits
    /\ log' = out.log
    /\ press' = [press EXCEPT
                    !.jumps = IF out.log.jump.applied THEN @ + 1 ELSE @,
                    !.gap = IF Invoked(out.log) /\ press.fired > 0
                            THEN updates + 1 - press.fired ELSE @,
                    !.fired = IF Invoked(out.log)
                                 /\ out.log.ability.post.abilityCooldown = 120
                              THEN updates + 1 ELSE @]

\* one invocation of update: the mount call or a due animation frame
Update ==
    /\ rafPending
    /\ updates < Horizon
    /\ Commit(update(Ctx))
    /\ updates' = updates + 1
    /\ UNCHANGED <<rev, scenario, inputs, calc, app, loop>>

Next == KeyDown \/ KeyUp \/ Touch \/ Update

Spec == Init /\ [][Next]_vars

\* ------------------------------------------------- the geometry functions

MaxCoord == 2
MaxSide == 4

\* the rectangles the functions are called with
Rects == [x : 0..MaxCoord, y : 0..MaxCoord, w : 0..MaxSide, h : 0..MaxSide]

\* an engine that takes no part: mounted and left alone
Parked ==
    /\ rev = "r009"
    /\ scenario = Run("pit", LevelPit, "Peach", {"ability", "jump"}, FALSE)
    /\ Mounted

InitPhysics ==
    /\ Parked
    /\ app = Playing
    /\ loop = Looping
    /\ calc \in [r1 : Rects, r2 : Rects, done : {FALSE}]

\* one call of each function on the pair, in both orders for the overlap test
Collide ==
    /\ ~calc.done
    /\ calc' = [r1 |-> calc.r1, r2 |-> calc.r2, done |-> TRUE,
                hit |-> checkRectCollision(calc.r1, calc.r2),
                swapped |-> checkRectCollision(calc.r2, calc.r1),
                side |-> getCollisionSide(calc.r1, calc.r2)]
    /\ UNCHANGED <<engineVars, app, loop>>

NextPhysics == Collide

SpecPhysics == InitPhysics /\ [][NextPhysics]_vars

\* ------------------------------------------------------------ properties

ScenarioIs(name) == scenario.name = name

OnlyRightHeld == gs.keys = [NoKeys EXCEPT !["right"] = TRUE]

\* the cells of the level that were Question blocks when the run started
QuestionCells == {i \in Cells(scenario.level) : scenario.level.grid[i + 1] = TileQuestion}

\* the calls of handleDamage made by the last update
DamageCalls == {log.damage[i] : i \in 1..Len(log.damage)}

\* the head bumps of the last update
Bumps == {log.bumps[i] : i \in 1..Len(log.bumps)}

\* C11: the jump impulse is applied only in a step that finds the jump input
\* pending and the player grounded, climbing or on a vine.
C11_JumpOnlyFromSupport ==
    log.jump.applied =>
        /\ log.jump.pending
        /\ log.jump.grounded \/ log.jump.climbing \/ log.jump.onVine

\* C12: one continuous press of the jump control, with the key-repeat events
\* that arrive while it is held, has triggered at most one jump.
C12_OneJumpPerPress == press.jumps <= 1

\* C13: a step that finds the ability input set while abilityCooldown, after
\* the step's decrement, is still above 0 does not run the ability: its ability
\* part leaves the entities, the timers and everything else as it found them.
C13_CooldownBlocksAbility ==
    (log.ability.pending /\ log.ability.pre.abilityCooldown > 0)
        => log.ability.post = log.ability.pre

\* a step has found the ability input set during the cooldown of an earlier
\* activation
C13_Witness == log.ability.pending /\ log.ability.pre.abilityCooldown > 0

\* the ability handler ran in the last update
Activated == log.ability.pending /\ log.ability.pre.abilityCooldown <= 0

\* the column the ability sprouts in and the row under the player's feet
SproutCol(g) == Floor(g.player.x + g.player.w \div 2, TILE_SIZE)
FootRow(g) == Floor(g.player.y + g.player.h, TILE_SIZE)

\* the player stands on a Ground tile with an Empty cell above it
StandsOnGround(g) ==
    /\ g.player.y + g.player.h = FootRow(g) * TILE_SIZE
    /\ getTile(g, SproutCol(g), FootRow(g)) = TileGround
    /\ FootRow(g) > 0
    /\ getTile(g, SproutCol(g), FootRow(g) - 1) = TileEmpty

\* the entities the ability part of the last update added
Sprouted ==
    SubSeq(log.ability.post.entities, Len(log.ability.pre.entities) + 1,
           Len(log.ability.post.entities))

\* C14: Toad's ability, activated standing on a Ground tile with Empty cells
\* above it, adds between one and 8 Vine entities in the player's column, in
\* consecutive rows upward from the ground, none of them in a solid tile
\* above the ground.
C14_SproutFromGround ==
    (character = "Toad" /\ Activated /\ StandsOnGround(log.ability.pre)) =>
        LET g == log.ability.pre
            n == Len(Sprouted)
            row(i) == Sprouted[i].y \div TILE_SIZE
        IN /\ n >= 1
           /\ n <= 8
           /\ \A i \in 1..n :
                 /\ Sprouted[i].type = "vine"
                 /\ Sprouted[i].y = row(i) * TILE_SIZE
                 /\ Sprouted[i].x >= SproutCol(g) * TILE_SIZE
                 /\ Sprouted[i].x < (SproutCol(g) + 1) * TILE_SIZE
                 /\ row(i) < FootRow(g) => ~PlayerSolid(getTile(g, SproutCol(g), row(i)))
           /\ row(1) \in {FootRow(g), FootRow(g) - 1}
           /\ \A i \in 1..(n - 1) : row(i + 1) = row(i) - 1

\* C15: Peach's activation sets the invulnerability window and the cooldown
\* in the same step; in every other step each of the two counts down by one
\* until it is 0; and a step inside the window in which the player does not
\* fall out of the level, whatever spike or enemy the player touches, leaves
\* the form as it was and the run going.
C15_PeachShield ==
    [][(ScenarioIs("shield") /\ updates' = updates + 1 /\ ~gs.gameOver) =>
          /\ Activated' =>
                (gs'.invincibilityTimer > 0 /\ gs'.abilityCooldown > 0)
          /\ ~Activated' =>
                /\ gs'.invincibilityTimer = Max(gs.invincibilityTimer - 1, 0)
                /\ gs'.abilityCooldown = Max(gs.abilityCooldown - 1, 0)
          /\ (gs.invincibilityTimer > 1 /\ ~log'.fell) =>
                (~gs'.gameOver /\ gs'.isBig = gs.isBig)]_vars

\* C16: a step in which Luigi's ability runs leaves the player invulnerable
\* (the engine's invulnerability is invincibilityTimer > 0), and a fall below
\* the level in that step still ends the run.
C16_GhostDash ==
    (character = "Luigi" /\ Activated) =>
        /\ log.ability.post.invincibilityTimer > 0
        /\ log.fell => gs.gameOver

\* C17: the ability handler runs only when nothing of an earlier activation
\* is left: no vine among the entities and, for Peach, no invulnerability
\* window.
C17_OneActivationInFlight ==
    Activated =>
        /\ \A i \in 1..Len(log.ability.pre.entities) :
              log.ability.pre.entities[i].type # "vine"
        /\ character = "Peach" => log.ability.pre.invincibilityTimer = 0

\* the meetings of the player with a Goomba in the last update
Contacts == {log.contacts[i] : i \in 1..Len(log.contacts)}

\* the player was moving down and, before the step's vertical move, had the
\* bottom edge at or above the Goomba's midpoint
FromAbove(c) == c.vy > 0 /\ c.bottom <= c.mid

\* C18: the player meeting a live Goomba from above, moving down, kills it
\* and bounces with half the jump impulse, undamaged; any other meeting takes
\* the damage path once and leaves the Goomba alive.
C18_StompOrDamage ==
    \A c \in Contacts :
        /\ FromAbove(c) => (c.killed /\ c.postVy = JUMP_FORCE \div 2 /\ c.damage = 0)
        /\ ~FromAbove(c) => (~c.killed /\ c.damage = 1)

\* a Goomba has been stomped in the last update
C18_Witness == \E c \in Contacts : FromAbove(c) /\ c.killed

\* C19: a jump gives the player the jumpForce of the selected character's
\* entry in the per-character table, and the horizontal speed never exceeds
\* that entry's moveSpeed.
C19_CharacterPhysics ==
    /\ log.jump.applied => log.jump.vy = CHARACTERS[character].jumpForce
    /\ Abs(gs.player.vx) <= CHARACTERS[character].moveSpeed

\* the kinds of the tiles that blocked the player in the last update
Blocking == {log.solid[i] : i \in 1..Len(log.solid)}

\* an enemy rests on top of a tile of a kind that is no TileType
EnemyOnUnknownTile ==
    \E i \in 1..Len(gs.entities) :
        LET e == gs.entities[i]
            row == Floor(e.y + e.h, TILE_SIZE)
        IN /\ e.type = "goomba" /\ e.vy = 0 /\ updates > 0
           /\ e.y + e.h = row * TILE_SIZE
           /\ getTile(gs, Floor(e.x, TILE_SIZE), row) \notin TileEmpty..TileVineBase

\* C20: a tile whose kind is no TileType is inert: it never blocks the
\* player, no enemy comes to rest on it, and on the level whose only
\* obstacle is such a tile the damage path is never entered.
C20_UnknownTileInert ==
    /\ Blocking \subseteq TileEmpty..TileVineBase
    /\ ~EnemyOnUnknownTile
    /\ ScenarioIs("unknown") => log.damage = <<>>

\* ------------------------------------------------------- the game loop

MaxRuns == 3
MaxFrames == 6

\* cancelAnimationFrame that cancels nothing
CancelledNothing(pending, id) == pending

\* cancelAnimationFrame(id): the frame of that id, if due, is dropped
Cancelled(pending, id) == {f \in pending : f.id # id}

\* update() in the closure of effect run g: nothing once the game is over,
\* else a step, which may end the game, and one animation frame requested
\* with its id kept in the closure's animationFrameId
LoopUpdate(l, g, ends) ==
    IF l.over THEN [l EXCEPT !.ran = 0, !.late = FALSE]
    ELSE [l EXCEPT !.over = ends,
                   !.ran = g,
                   !.late = (g \in l.stopped),
                   !.frames = @ + 1,
                   !.pending = @ \cup {[id |-> l.nextId, gen |-> g]},
                   !.frameId[g] = l.nextId,
                   !.nextId = @ + 1]

\* the game-loop effect runs (mount, or a dependency changed and the previous
\* run was cleaned up): a new closure, whose animationFrameId is unassigned,
\* calls update(); a changed level has had the state reset first
StartLoop ==
    \E ends \in BOOLEAN, reset \in BOOLEAN :
        /\ ~loop.live
        /\ loop.gen < MaxRuns
        /\ loop.frames < MaxFrames
        /\ loop' = LoopUpdate([loop EXCEPT !.gen = @ + 1, !.live = TRUE,
                                           !.frameId = Append(@, 0),
                                           !.over = IF reset THEN FALSE ELSE @],
                              loop.gen + 1, ends)
        /\ UNCHANGED <<engineVars, calc, app>>

\* the browser runs a due animation frame
AnimationFrame ==
    \E f \in loop.pending, ends \in BOOLEAN :
        /\ loop.frames < MaxFrames
        /\ loop' = LoopUpdate([loop EXCEPT !.pending = @ \ {f}], f.gen, ends)
        /\ UNCHANGED <<engineVars, calc, app>>

\* the effect's cleanup (unmount, or before the effect runs again)
StopLoop ==
    /\ loop.live
    /\ loop' = [loop EXCEPT !.live = FALSE,
                            !.stopped = @ \cup {loop.gen},
                            !.pending = Cancelled(@, loop.frameId[loop.gen]),
                            !.ran = 0, !.late = FALSE]
    /\ UNCHANGED <<engineVars, calc, app>>

InitLoop ==
    /\ rev \in Revisions
    /\ scenario = Run("pit", LevelPit, "Peach", {"ability", "jump"}, FALSE)
    /\ Mounted
    /\ calc = NoCalc
    /\ app = Playing
    /\ loop = NoLoop

NextLoop == StartLoop \/ AnimationFrame \/ StopLoop

SpecLoop == InitLoop /\ [][NextLoop]_vars

\* ------------------------------------------------- run initialisation

\* the timer and camera values a run in progress is given here
MidRunTimer == 60
MidRunCamera == 4

\* the states a run in progress may have left the engine in when the level
\* prop changes and the initialisation effect runs again
MidRun(g) ==
    { [g EXCEPT !.canJump = cj, !.isClimbing = cl, !.isBig = big,
                !.gameOver = over, !.invincibilityTimer = t,
                !.abilityCooldown = t, !.camera = Px(cam),
                !.keys = [NoKeys EXCEPT !["right"] = held]] :
        cj \in BOOLEAN, cl \in BOOLEAN, big \in BOOLEAN, over \in BOOLEAN,
        held \in BOOLEAN, t \in {0, MidRunTimer}, cam \in {0, MidRunCamera} }

InitReset ==
    /\ rev \in Revisions
    /\ scenario = Run("pit", LevelPit, "Peach", {"ability", "jump"}, FALSE)
    /\ Mounted
    /\ app = Playing
    /\ loop = Looping
    /\ calc \in [prev : MidRun(gs), done : {FALSE}]

\* the initialisation effect runs again on the engine instance
Reinitialise ==
    /\ ~calc.done
    /\ calc' = [prev |-> calc.prev, done |-> TRUE, out |-> InitRun(calc.prev, level)]
    /\ UNCHANGED <<engineVars, app, loop>>

NextReset == Reinitialise

SpecReset == InitReset /\ [][NextReset]_vars

\* ------------------------------------------------- generated start position

\* the two revisions of utils/levelParser: src/unnamed/part_001 and
\* src/unnamed/part_010
Parsers == {"part_001", "part_010"}

\* TILE_SIZE as the number the parser multiplies by
TilePixels == TILE_SIZE \div Px(1)

\* parseLevelLayout on a layout whose only mark is 'S' at column c, row r:
\* part_001 stores the start in world coordinates and appends a Player
\* placeholder (carrying width/height, so w and h are not set);
\* part_010 stores the grid cell and adds no entity.
parseLevelLayout(parser, c, r) ==
    [grid |-> [i \in 1..(EDITOR_COLS * EDITOR_ROWS) |-> TileEmpty],
     entities |-> IF parser = "part_001"
                  THEN <<[PlacedEntity("player", c, r) EXCEPT !.w = 0, !.h = 0]>>
                  ELSE <<>>,
     startPos |-> IF parser = "part_001"
                  THEN [x |-> c * TilePixels, y |-> r * TilePixels]
                  ELSE [x |-> c, y |-> r]]

\* the level handleGenerate stores: the start clamped to the editor grid
GeneratedLevel(parsed) ==
    MakeLevel(EDITOR_COLS, EDITOR_ROWS, parsed.grid, parsed.entities,
              Max(0, Min(parsed.startPos.x, EDITOR_COLS - 1)),
              Max(0, Min(parsed.startPos.y, EDITOR_ROWS - 1)))

InitStart ==
    /\ rev \in Revisions
    /\ scenario = Run("pit", LevelPit, "Peach", {"ability", "jump"}, FALSE)
    /\ Mounted
    /\ app = Playing
    /\ loop = Looping
    /\ calc \in [c : 0..(EDITOR_COLS - 1), r : 0..(EDITOR_ROWS - 1),
                 parser : Parsers, done : {FALSE}]

\* generate the layout, store the level, start a run from it
StartGenerated ==
    /\ ~calc.done
    /\ calc' = [c |-> calc.c, r |-> calc.r, parser |-> calc.parser, done |-> TRUE,
                player |-> InitRun(Constructed,
                              GeneratedLevel(parseLevelLayout(calc.parser, calc.c, calc.r))).player]
    /\ UNCHANGED <<engineVars, app, loop>>

NextStart == StartGenerated

SpecStart == InitStart /\ [][NextStart]_vars

\* C39: the run started from a generated level whose layout has 'S' at
\* column c, row r places the player at (c x TILE_SIZE, r x TILE_SIZE).
C39_StartPosition ==
    calc.done =>
        /\ calc.player.x = calc.c * TILE_SIZE
        /\ calc.player.y = calc.r * TILE_SIZE

\* ------------------------------------------------------------------ App

MaxAppEvents == 7

\* the two revisions of the App component: src/App.tsx and the earlier
\* src/unnamed/part_002
AppFiles == {"App.tsx", "part_002"}

\* what the App shows for its state: the GameEngine in play mode, else the editor
Render(a) == [a EXCEPT !.mounted = (a.mode = "play")]

\* the render that shows the editor whatever the mode
RenderEditor(a) == [a EXCEPT !.mounted = FALSE]

\* the state a handler leaves behind, rendered
AppEvent(name, a) ==
    /\ app.events < MaxAppEvents
    /\ app' = Render([a EXCEPT !.last = name, !.events = app.events + 1])
    /\ UNCHANGED <<engineVars, calc, loop>>

\* useState initial values: editor mode, the initial level, nothing generating
InitApp ==
    /\ Parked
    /\ calc = NoCalc
    /\ loop = NoLoop
    /\ \E f \in AppFiles :
          app = Render([Playing EXCEPT !.mode = "editor", !.last = "init", !.file = f])

\* the prompt field (disabled while generating) is edited, to some text or to
\* nothing
TypePrompt ==
    \E filled \in BOOLEAN :
        /\ app.mode = "editor"
        /\ ~app.generating
        /\ filled # app.prompt
        /\ AppEvent("type", [app EXCEPT !.prompt = filled])

\* the LevelEditor replaces the level through setLevel
EditLevel ==
    /\ app.mode = "editor"
    /\ AppEvent("edit", [app EXCEPT !.version = @ + 1])

\* the document's Enter-key listener calls handleGenerate in this mode: in
\* part_002 it has no test of the mode and stays registered during play
EnterListens(a) == a.file = "part_002"

\* handleGenerate up to its await, from the Generate button or the Enter key
Generate ==
    /\ app.mode = "editor" \/ EnterListens(app)
    /\ ~app.generating
    /\ app.prompt
    /\ AppEvent("generate", [app EXCEPT !.generating = TRUE, !.request = "pending"])

\* handleGenerate without its finally block
SettledStuck(a, outcome) ==
    IF outcome = "layout"
    THEN [a EXCEPT !.version = @ + 1, !.levelKey = @ + 1,
                   !.generating = FALSE, !.request = "none"]
    ELSE [a EXCEPT !.alerts = @ + 1, !.lastAlert = "failed", !.request = "none"]

\* handleGenerate that installs a level whatever the answer
SettledAlways(a, outcome) ==
    IF outcome = "layout"
    THEN [a EXCEPT !.version = @ + 1, !.levelKey = @ + 1,
                   !.generating = FALSE, !.request = "none"]
    ELSE [a EXCEPT !.version = @ + 1, !.levelKey = @ + 1,
                   !.alerts = @ + 1, !.lastAlert = "failed",
                   !.generating = FALSE, !.request = "none"]

\* handleGenerate after its await: a usable layout replaces the level and
\* bumps the remount key, anything else is caught and alerted; the finally
\* block clears the flag.  In part_002 the success path calls padEnd on the
\* sliced grid array, which throws, so a usable layout is caught and alerted
\* as well.
Settled(a, outcome) ==
    IF outcome = "layout" /\ a.file = "part_002"
    THEN [a EXCEPT !.alerts = @ + 1, !.lastAlert = "failed",
                   !.generating = FALSE, !.request = "none"]
    ELSE IF outcome = "layout"
    THEN [a EXCEPT !.version = @ + 1, !.levelKey = @ + 1,
                   !.generating = FALSE, !.request = "none"]
    ELSE [a EXCEPT !.alerts = @ + 1, !.lastAlert = "failed",
                   !.generating = FALSE, !.request = "none"]

\* the rest of handleGenerate once the service has settled: usable layout,
\* unusable answer, or rejection
Settle ==
    \E outcome \in {"layout", "unusable", "rejected"} :
        /\ app.request = "pending"
        /\ AppEvent(outcome, Settled(app, outcome))

\* handlePlay, from the play button (disabled while generating)
Play ==
    /\ app.mode = "editor"
    /\ ~app.generating
    /\ AppEvent("play", [app EXCEPT !.mode = "play"])

handleGameExit(a) == [a EXCEPT !.mode = "editor"]

handleGameWin(a) == [a EXCEPT !.alerts = @ + 1, !.lastAlert = "win", !.mode = "editor"]

\* the die handler that only alerts
handleGameDieStays(a) == [a EXCEPT !.alerts = @ + 1, !.lastAlert = "die"]

handleGameDie(a) == [a EXCEPT !.alerts = @ + 1, !.lastAlert = "die", !.mode = "editor"]

\* the mounted GameEngine calls onExit, onWin or onDie
Exit == app.mounted /\ AppEvent("exit", handleGameExit(app))
Win == app.mounted /\ AppEvent("win", handleGameWin(app))
Die == app.mounted /\ AppEvent("die", handleGameDie(app))

NextApp == TypePrompt \/ EditLevel \/ Generate \/ Settle \/ Play \/ Exit \/ Win \/ Die

SpecApp == InitApp /\ [][NextApp]_vars

Pending(a) == a.request = "pending"

\* the play button and the Generate button as rendered
PlayDisabled(a) == a.generating
GenerateDisabled(a) == a.generating \/ ~a.prompt

\* C25: the App starts in editor mode, PLAY leaves it in play mode, each of
\* exit, win and die leaves it in editor mode, no other event changes the
\* mode, and the GameEngine is mounted exactly when the mode is play.
C25_ModeMachine ==
    [][/\ app'.mounted <=> app'.mode = "play"
       /\ app'.last = "play" => app'.mode = "play"
       /\ app'.last \in {"exit", "win", "die"} => app'.mode = "editor"
       /\ app'.last \notin {"play", "exit", "win", "die"} => app'.mode = app.mode
       /\ app.last = "init" => (app.mode = "editor" /\ ~app.mounted)]_vars

\* the App is back in the editor after a second game ended with a death
C25_Witness ==
    /\ app.last = "die" /\ app.mode = "editor" /\ ~app.mounted
    /\ app.events >= 4

\* C26: the generating flag is set for exactly as long as a request is in
\* flight: it is set while the request is pending, which disables the play and
\* Generate controls, and the step in which the service settles, with a layout,
\* an unusable answer or a rejection, clears it and enables play again.
C26_GeneratingCleared ==
    [][/\ app'.generating <=> Pending(app')
       /\ Pending(app') => (PlayDisabled(app') /\ GenerateDisabled(app'))
       /\ (Pending(app) /\ ~Pending(app')) =>
             (~app'.generating /\ ~PlayDisabled(app'))]_vars

\* a request was rejected and the controls are live again
C26_Witness ==
    /\ app.last = "rejected" /\ ~app.generating /\ ~Pending(app)
    /\ ~PlayDisabled(app) /\ ~GenerateDisabled(app)

\* C27: a generation that fails, by rejection or by an answer with no usable
\* layout, leaves the level and the remount key as they were and raises the
\* failure alert.
C27_FailureKeepsLevel ==
    [][app'.last \in {"unusable", "rejected"} =>
         /\ app'.version = app.version
         /\ app'.levelKey = app.levelKey
         /\ app'.alerts = app.alerts + 1
         /\ app'.lastAlert = "failed"]_vars

\* an edited level survived an unusable answer
C27_Witness ==
    /\ app.last = "unusable" /\ app.version > 0 /\ app.lastAlert = "failed"

\* the cells whose tile a step changed
Rewritten == {i \in DOMAIN gs.grid : gs'.grid[i] # gs.grid[i]}

\* C28: no step changes the grid's length, and every cell a step changes goes
\* from Question to HardBlock or, under a Big player, from Brick to Empty, and
\* was changed by a head bump of the player's vertical collision resolution
\* against that cell in that step.
C28_GridWrites ==
    [][/\ Len(gs'.grid) = Len(gs.grid)
       /\ \A i \in Rewritten :
             /\ \/ gs.grid[i] = TileQuestion /\ gs'.grid[i] = TileHardBlock
                \/ gs.grid[i] = TileBrick /\ gs'.grid[i] = TileEmpty
             /\ \E n \in DOMAIN log'.bumps :
                   /\ log'.bumps[n].idx = i - 1
                   /\ log'.bumps[n].after = gs'.grid[i]
                   /\ log'.bumps[n].tile = TileBrick => log'.bumps[n].big]_vars

\* a Brick cell of the level is Empty after a head bump of the last update
C28_Witness ==
    \E i \in Cells(scenario.level) :
        /\ scenario.level.grid[i + 1] = TileBrick
        /\ gs.grid[i + 1] = TileEmpty
        /\ \E b \in Bumps : b.idx = i /\ ~b.gridSame

\* the pickups of the last update
Pickups == {log.pickups[i] : i \in 1..Len(log.pickups)}

\* C29: the sweep of a step keeps no entity whose dead flag is set, and the
\* player picks up no Coin or Mushroom that was dead already: the effect of a
\* collectible is applied at most once.
C29_DeadSweptOnce ==
    /\ log.carried = 0
    /\ \A k \in Pickups : ~k.wasDead

\* C30: an ability input pressed while abilityCooldown > 0 and held since
\* causes no activation: no update activates the ability while the input that
\* is down went down during a cooldown.
C30_NoQueuedAbility ==
    [][(updates' = updates + 1 /\ log'.ability.pending
        /\ log'.ability.pre.abilityCooldown <= 0) => ~press.stale]_vars

\* the cell (c, r) holds a solid tile before and after the step, in the
\* columns the player spans before and after it
SolidInPath(c, r) ==
    /\ PlayerSolid(PlayerTile(gs, c, r))
    /\ PlayerSolid(PlayerTile(gs', c, r))
    /\ gs.player.x < (c + 1) * TILE_SIZE /\ gs.player.x + gs.player.w > c * TILE_SIZE
    /\ gs'.player.x < (c + 1) * TILE_SIZE /\ gs'.player.x + gs'.player.w > c * TILE_SIZE

\* the step took the player from above the tile to below it
Sunk(c, r) ==
    /\ gs.player.y + gs.player.h <= r * TILE_SIZE
    /\ gs'.player.y >= (r + 1) * TILE_SIZE

\* the step took the player from below the tile to above it
Surfaced(c, r) ==
    /\ gs.player.y >= (r + 1) * TILE_SIZE
    /\ gs'.player.y + gs'.player.h <= r * TILE_SIZE

SpikeOverlaps == {log.spikes[i] : i \in 1..Len(log.spikes)}

\* C32: an update in which a Small player with invincibilityTimer = 0
\* overlaps a Spike during collision resolution ends the run Dead, whether
\* the overlap is new or began while the player was invulnerable.
C32_SpikeEveryStep ==
    (\E k \in SpikeOverlaps : k.inv = 0 /\ ~k.big /\ ~k.over) =>
        /\ gs.gameOver
        /\ \E d \in DamageCalls : d.died = 1

\* the player died on a Spike it had been standing in while invulnerable
C32_Witness ==
    /\ ScenarioIs("spikeTrap") /\ gs.gameOver /\ updates > 100
    /\ \E k \in SpikeOverlaps : k.inv = 0 /\ ~k.big /\ ~k.over
    /\ \E d \in DamageCalls : d.died = 1

\* the enemies the last update moved horizontally, before and after
Moves == {log.moves[i] : i \in 1..Len(log.moves)}

\* the tile kinds handleEntityMapCollision resolves against
EnemySolid(tile) == tile # TileEmpty /\ tile # TileSpike

\* the enemy's horizontal move takes it from outside the cell's tile into it
MovesInto(mv, c, r) ==
    /\ ~checkRectCollision(mv.pre, TileRect(c, r))
    /\ checkRectCollision([mv.pre EXCEPT !.x = @ + mv.pre.vx], TileRect(c, r))

\* C33: an enemy whose horizontal move takes it into a solid tile has its
\* horizontal velocity reversed, same magnitude, by the end of the step and
\* does not overlap that tile then.
C33_EnemyTurnsAtWall ==
    \A mv \in Moves :
        \A c \in 0..(gs.levelWidth - 1), r \in 0..(gs.levelHeight - 1) :
            (EnemySolid(getTile(gs, c, r)) /\ MovesInto(mv, c, r)) =>
                /\ mv.post.vx = -mv.pre.vx
                /\ ~checkRectCollision(mv.post, TileRect(c, r))

\* C34: no update lowers invincibilityTimer by more than its decrement of 1:
\* no event of a step (pickup, shield, damage) shortens a window that is
\* running.
C34_TimerNeverShortened ==
    [][updates' = updates + 1 =>
         gs'.invincibilityTimer >= gs.invincibilityTimer - 1]_vars

\* C35: the initialisation effect leaves gameOver, isBig, the two timers, the
\* camera, the grounded and climbing flags and the inputs at their initial
\* values, whatever the engine held before.
C35_ResetComplete ==
    calc.done =>
        /\ ~calc.out.gameOver /\ ~calc.out.isBig
        /\ calc.out.invincibilityTimer = 0 /\ calc.out.abilityCooldown = 0
        /\ calc.out.camera = 0
        /\ ~calc.out.canJump /\ ~calc.out.isClimbing
        /\ calc.out.keys = NoKeys

\* C36: at most one animation frame of the game loop is due at any time, and
\* no step runs in the closure of an effect run that has been cleaned up.
C36_OneLoop ==
    /\ Cardinality(loop.pending) <= 1
    /\ ~loop.late
    /\ \A f \in loop.pending : f.gen \notin loop.stopped

\* a step of a later run of the effect has executed after an earlier run was
\* cleaned up with its frame due
C36_Witness ==
    /\ loop.stopped # {} /\ loop.gen >= 2 /\ loop.ran = loop.gen
    /\ loop.frames >= 4 /\ Cardinality(loop.pending) = 1

\* C37: in play mode no generation is in flight, the level does not change
\* while the App stays in play mode, and a generation starts and settles in
\* editor mode only.
C37_NoGenerationInPlay ==
    [][/\ app'.mode = "play" => (~Pending(app') /\ ~app'.generating)
       /\ (app.mode = "play" /\ app'.mode = "play") => app'.version = app.version
       /\ app'.last \in {"generate", "layout", "unusable", "rejected"} =>
             app.mode = "editor"]_vars

\* C38: after an update in which the ability sets abilityCooldown to 120, the
\* next call of handleAbility comes 120 updates later at the earliest.
C38_CooldownLength == press.gap = 0 \/ press.gap >= 120

\* handleAbility was called again in the 120th update after the activation
C38_Witness == character = "Toad" /\ press.gap = 120 /\ Invoked(log)

\* the two rectangles have positive sides
Proper(c) == c.r1.w > 0 /\ c.r1.h > 0 /\ c.r2.w > 0 /\ c.r2.h > 0

\* the area the two rectangles share
Shared(c) ==
    Max(0, Min(c.r1.x + c.r1.w, c.r2.x + c.r2.w) - Max(c.r1.x, c.r2.x))
    * Max(0, Min(c.r1.y + c.r1.h, c.r2.y + c.r2.h) - Max(c.r1.y, c.r2.y))

\* C21: checkRectCollision gives the same answer with its arguments
\* exchanged, and answers false for two rectangles of positive sides that
\* share no area (apart, or touching along an edge or at a corner).
C21_SymmetricAndOpen ==
    calc.done =>
        /\ calc.hit = calc.swapped
        /\ (Proper(calc) /\ Shared(calc) = 0) => ~calc.hit

\* the function has been called on two rectangles that share only an edge
C21_Witness ==
    /\ calc.done /\ Proper(calc) /\ ~calc.hit
    /\ calc.r1.x + calc.r1.w = calc.r2.x
    /\ calc.r1.y = calc.r2.y

\* C22: checkRectCollision answers false whenever one of the rectangles has
\* zero width or zero height.
C22_DegenerateNeverOverlaps ==
    (calc.done /\ ~Proper(calc)) => ~calc.hit

\* the penetration of each side of r1 into r2
Penetration(c) ==
    [right |-> c.r1.x + c.r1.w - c.r2.x, left |-> c.r2.x + c.r2.w - c.r1.x,
     bottom |-> c.r1.y + c.r1.h - c.r2.y, top |-> c.r2.y + c.r2.h - c.r1.y]

\* C23: getCollisionSide answers none exactly when checkRectCollision
\* answers false, and otherwise one of the four sides, one whose penetration
\* is the least of the four.
C23_MinPenetrationSide ==
    calc.done =>
        /\ calc.side = "none" <=> ~calc.hit
        /\ calc.hit =>
              /\ calc.side \in {"top", "bottom", "left", "right"}
              /\ \A d \in {"top", "bottom", "left", "right"} :
                    Penetration(calc)[calc.side] <= Penetration(calc)[d]

\* the player rests on solid ground with no input set
AtRest(g) ==
    /\ ~g.gameOver
    /\ g.keys = NoKeys
    /\ Grounded(g)
    /\ g.player.vy = 0
    /\ g.canJump

\* the step met no enemy, took no damage and left the player's size alone
Undisturbed ==
    /\ log'.contacts = <<>>
    /\ log'.damage = <<>>
    /\ gs'.isBig = gs.isBig
    /\ gs'.player.h = gs.player.h

\* C24: a step of a player resting on the ground with no input, whose feet
\* are still over solid ground after the step's horizontal move and whom
\* nothing else disturbs, ends with
\* vertical velocity 0 and canJump set, and brings the horizontal velocity
\* strictly closer to 0 or leaves it at 0: it is exactly 0 after at most as
\* many such steps as its size, and stays 0.
C24_RestConverges ==
    [][(updates' = updates + 1 /\ AtRest(gs) /\ Undisturbed
        /\ Grounded([gs EXCEPT !.player.x = gs'.player.x])) =>
          /\ gs'.player.vy = 0
          /\ gs'.canJump
          /\ gs.player.vx = 0 => gs'.player.vx = 0
          /\ gs.player.vx # 0 => Abs(gs'.player.vx) < Abs(gs.player.vx)]_vars

\* a resting player whose speed was decaying has come to a halt
C24_Witness ==
    /\ AtRest(gs) /\ gs.player.vx = 0 /\ gs.player.x > Px(1)
    /\ inputs >= 2

\* C1: over a run the terminal callbacks are invoked at most once in total:
\* onDie never twice, onWin never twice, and never both.
C1_AtMostOneTerminalCallback == onWinCalls + onDieCalls <= 1

\* C2: an update invoked once gameOver is set leaves the player, the entities,
\* the grid, the timers and the camera as they were and invokes no callback.
C2_GameOverFreezesUpdate ==
    [][(gs.gameOver /\ updates' = updates + 1) =>
          /\ gs' = gs
          /\ level' = level
          /\ onWinCalls' = onWinCalls
          /\ onDieCalls' = onDieCalls
          /\ spawned' = spawned]_vars

\* an update has been invoked with gameOver set, and returned at the guard
C2_Witness == gs.gameOver /\ updates > 0 /\ ~log.ran

\* C3: on the level with a Goal tile on the walking path, with only
\* move-right held, the run comes to rest (a further update changes nothing)
\* only after onWin has been invoked exactly once and onDie never.
C3_WalkRightWins ==
    (ScenarioIs("goalTile") /\ OnlyRightHeld /\ updates > 0 /\ update(Ctx).gs = gs)
        => (onWinCalls = 1 /\ onDieCalls = 0)

\* C4: every call of handleDamage: with invincibilityTimer > 0 it changes
\* nothing; otherwise a Big player becomes Small with the timer at 120 and the
\* run goes on; otherwise the run ends with gameOver set and onDie invoked.
C4_DamagePath ==
    \A d \in DamageCalls :
        /\ d.inv > 0 => d.same
        /\ (d.inv <= 0 /\ d.big) =>
              (~d.postBig /\ d.postInv = 120 /\ d.postOver = d.over
               /\ d.died = 0 /\ d.won = 0)
        /\ (d.inv <= 0 /\ ~d.big) => (d.postOver /\ d.died = 1 /\ d.won = 0)

\* a Big player with no invulnerability has taken damage in a running game
C4_Witness == \E d \in DamageCalls : d.inv = 0 /\ d.big /\ ~d.over

\* C5: a Big player on solid ground who takes enemy damage survives it: while
\* the invulnerability the hit started is running, the run has not ended.
C5_BigHitSurvived ==
    (ScenarioIs("bigHit") /\ bigHits > 0 /\ gs.invincibilityTimer > 0) => ~gs.gameOver

\* C6: a step whose vertical move leaves the player below the level ends the
\* run Dead in that step, whatever the timer, the form or the shield.
C6_FallIsFatal == log.fell => (gs.gameOver /\ onDieCalls >= 1)

\* a player with invulnerability running has fallen below the level
C6_Witness == log.fell /\ log.fellInv > 0

\* C7 as stated: on the level whose start is directly above a Spike with
\* nothing beneath, the first update with no input has invoked onDie exactly
\* once and onWin never.
C7_FirstStepDies ==
    (ScenarioIs("spikeDrop") /\ inputs = 0 /\ updates = 1)
        => (onDieCalls = 1 /\ onWinCalls = 0)

\* C7 amended: the player starts above the spike's row and falls into it, so
\* with no input the first four updates invoke nothing and the fifth invokes
\* onDie exactly once; onWin is never invoked.
C7_FifthStepDies ==
    (ScenarioIs("spikeDrop") /\ inputs = 0) =>
        /\ onWinCalls = 0
        /\ updates < 5 => onDieCalls = 0
        /\ updates >= 5 => onDieCalls = 1

\* the fifth update with no input has just killed the player on the spike
C7_Witness ==
    /\ ScenarioIs("spikeDrop") /\ inputs = 0 /\ updates = 5
    /\ \E d \in DamageCalls : d.died = 1

\* C8: a Question cell struck from below is a HardBlock from the first strike
\* on and has had exactly one Mushroom spawned for it, however often it is
\* struck; an unstruck one is still a Question block with nothing spawned.
C8_OneMushroomPerQuestion ==
    \A i \in QuestionCells :
        /\ spawned[i] <= 1
        /\ strikes[i] = 0 => (gs.grid[i + 1] = TileQuestion /\ spawned[i] = 0)
        /\ strikes[i] >= 1 => (gs.grid[i + 1] = TileHardBlock /\ spawned[i] = 1)

\* a Question cell has been struck a second time
C8_Witness == \E i \in QuestionCells : strikes[i] >= 2

\* C9: a Brick struck from below is left as it is by a Small player and
\* becomes Empty under a Big player.
C9_BrickStrike ==
    \A b \in Bumps :
        b.tile = TileBrick =>
            /\ ~b.big => b.gridSame
            /\ b.big => b.after = TileEmpty

\* a Big player has struck a Brick from below
C9_Witness == \E b \in Bumps : b.tile = TileBrick /\ b.big

\* C10: the caller's level data, grid and entities with their fields, stay as
\* they were at the start of the run.
C10_LevelUntouched == level = scenario.level

\* the engine has broken a block and removed a collected entity from its
\* own copies of the level's data
C10_Witness ==
    /\ gs.grid # scenario.level.grid
    /\ Len(gs.entities) < Len(scenario.level.entities)

\* C40: at the end of every simulation step the player's horizontal
\* velocity is within the limit, |vx| <= MOVE_SPEED, whatever keys are
\* held (left and right together included).
C40_SpeedLimit == updates > 0 => Abs(gs.player.vx) <= MOVE_SPEED

\* a step has ended with the player at the limit itself
C40_Witness ==
    /\ ScenarioIs("bothWays") /\ updates > 0 /\ log.ran
    /\ Abs(gs.player.vx) = MOVE_SPEED

====
